---- MODULE Spec2Model ----
(***************************************************************************)
(* podcatch: a command line podcast catcher (src/podcatch.py).             *)
(*                                                                         *)
(* Strings are sequences of tokens.  The characters the code inspects      *)
(* ("/", ".", "?", " " and the characters it sanitises) are tokens of      *)
(* their own; every other token is an opaque run of ordinary characters.   *)
(* A file's content is a sequence of bytes.                                *)
(***************************************************************************)
EXTENDS Integers, Sequences, FiniteSets, TLC

\* ---------------------------------------------------------------- bounds
MaxRuns == 2        \* invocations of podcatch() in one behaviour
ResLen == 2         \* byte length of every remote resource

\* ------------------------------------------------------- program constants
CHUNK == 8192       \* hdl.read(0x2000)

None == "None"

\* ------------------------------------------------------------ path helpers
Min(a, b) == IF a < b THEN a ELSE b

\* str.rfind: 1-based position of the last occurrence of c in s, 0 if none
RFind(s, c) ==
    LET hits == {i \in 1..Len(s) : s[i] = c}
    IN  IF hits = {} THEN 0 ELSE CHOOSE i \in hits : \A j \in hits : j <= i

\* str.find: position of the first occurrence of c in s, 0 if none
Find(s, c) ==
    LET hits == {i \in 1..Len(s) : s[i] = c}
    IN  IF hits = {} THEN 0 ELSE CHOOSE i \in hits : \A j \in hits : i <= j

\* urlparse(url).path: a URL is <<scheme-and-host, path tokens..., "?", query>>
UrlPath(url) ==
    IF Len(url) = 0 THEN <<>>
    ELSE LET q == Find(url, "?")
             last == IF q = 0 THEN Len(url) ELSE q - 1
         IN  SubSeq(url, 2, last)

\* os.path.basename
Basename(p) == SubSeq(p, RFind(p, "/") + 1, Len(p))

\* os.path.splitext(p)[1]: the extension starts at the last dot of the last
\* component, unless that component has nothing but dots before it
SplitExt(p) ==
    LET sepIndex == RFind(p, "/")
        dotIndex == RFind(p, ".")
    IN  IF dotIndex > sepIndex
           /\ \E k \in (sepIndex + 1)..(dotIndex - 1) : p[k] # "."
        THEN SubSeq(p, dotIndex, Len(p))
        ELSE <<>>

\* os.path.join(a, b)
Join(a, b) ==
    IF Len(b) > 0 /\ b[1] = "/" THEN b
    ELSE IF Len(a) = 0 \/ a[Len(a)] = "/" THEN a \o b
    ELSE a \o <<"/">> \o b

\* str.strip(): drop leading and trailing blanks
RECURSIVE LStrip(_)
LStrip(s) == IF Len(s) > 0 /\ s[1] = " " THEN LStrip(Tail(s)) ELSE s
RECURSIVE RStrip(_)
RStrip(s) ==
    IF Len(s) > 0 /\ s[Len(s)] = " " THEN RStrip(SubSeq(s, 1, Len(s) - 1))
    ELSE s
Strip(s) == RStrip(LStrip(s))

invalidchars == {"<", ">", ":", "\"", "/", "\\", "|", "?", "*"}

\* "".join([x if x not in invalidchars else '_' for x in title])
Sanitize(title) ==
    [i \in 1..Len(title) |-> IF title[i] \in invalidchars THEN "_" ELSE title[i]]

TempOf(dest) == dest \o <<".", "temp">>
TxtOf(dest) == dest \o <<".", "txt">>

\* ------------------------------------------------------------- file system
\* fs = [files: path -> [data, mtime], dirs: set of paths]
IsFile(fs, p) == p \in DOMAIN fs.files

\* os.path.exists: a path with a trailing separator names a directory
Exists(fs, p) ==
    IF Len(p) > 0 /\ p[Len(p)] = "/"
    THEN SubSeq(p, 1, Len(p) - 1) \in fs.dirs
    ELSE p \in DOMAIN fs.files \/ p \in fs.dirs

\* os.path.getsize
GetSize(fs, p) == Len(fs.files[p].data)

\* the function f with the key k removed
Without(f, k) == [x \in (DOMAIN f) \ {k} |-> f[x]]
\* the function f with f[k] = v
With(f, k, v) == [x \in (DOMAIN f) \cup {k} |-> IF x = k THEN v ELSE f[x]]

\* os.rename(src, dst) of a regular file: dst is replaced, src disappears
Rename(fs, src, dst) ==
    [fs EXCEPT !.files = With(Without(fs.files, src), dst, fs.files[src])]

\* open(p, mode) followed by nothing: "wb"/"w" truncates or creates,
\* "ab" creates when missing and keeps the content otherwise
OpenFile(fs, p, mode) ==
    IF mode = "ab" /\ IsFile(fs, p) THEN fs
    ELSE [fs EXCEPT !.files = With(fs.files, p, [data |-> <<>>, mtime |-> "local"])]

\* outhdl.write(data) on a file opened before
WriteFile(fs, p, data) ==
    [fs EXCEPT !.files[p].data = @ \o data]

\* os.utime(p, (t, t))
Utime(fs, p, t) == [fs EXCEPT !.files[p].mtime = t]

\* os.makedirs
MakeDirs(fs, p) == [fs EXCEPT !.dirs = @ \cup {p}]

\* ---------------------------------------------------------------- the web
URL_A == <<"http://h", "/", "x", "/", "a", ".", "mp3">>
URL_B == <<"http://h", "/", "y", "/", "a", ".", "mp3">>   \* basename of URL_A
URL_C == <<"http://h", "/", "c", ".", "mp3">>
URL_D == <<"http://h", "/", "d", "/">>                      \* empty basename
URL_Q == <<"http://h", "/", "q", ".", "mp3", "?", "t">>    \* with a query
URL_IMG == <<"http://h", "/", "i", ".", "png">>
URL_EMPTY == <<>>
\* the name of the stage file of URL_C
URL_T == <<"http://h", "/", "c", ".", "mp3", ".", "temp">>

\* the body the server holds for a URL: ResLen bytes, different per URL
Resource(url) == [i \in 1..ResLen |-> <<url, i>>]

\* an <item>: enclosure is "none" (no element), "nourl" (element without the
\* url attribute) or "url"
Item(enc, url, title, pubDate, description) ==
    [enclosure |-> enc, url |-> url, title |-> title, pubDate |-> pubDate,
     description |-> description]

IT_A == Item("url", URL_A, <<" ", "Ep", "1", " ">>, TRUE, "about 1")
IT_B == Item("url", URL_B, <<"Ep", "2">>, TRUE, "about 2")
IT_B1 == Item("url", URL_B, <<"Ep", "1">>, TRUE, None)        \* title of IT_A
IT_S1 == Item("url", URL_A, <<"a", "/", "b">>, TRUE, "s1")
IT_S2 == Item("url", URL_B, <<"a", ":", "b">>, TRUE, "s2")
IT_C == Item("url", URL_C, <<"Ep", "3">>, TRUE, "about 3")
IT_D == Item("url", URL_D, <<"Ep", "4">>, TRUE, "about 4")
IT_Q == Item("url", URL_Q, <<"Ep", "5">>, TRUE, None)
IT_NOPUB == Item("url", URL_A, <<"Ep", "6">>, FALSE, "about 6")
IT_NOENC == Item("none", URL_EMPTY, <<"Ep", "7">>, TRUE, "about 7")
IT_NOURL == Item("nourl", URL_EMPTY, <<"Ep", "8">>, TRUE, "about 8")
IT_EMPTY == Item("url", URL_EMPTY, <<"Ep", "9">>, TRUE, "about 9")
IT_T == Item("url", URL_T, <<"Ep", "10">>, TRUE, None)

\* a feed document as the server returns it: wellformed says whether
\* ET.fromstring accepts it, version is the root's version attribute, root the
\* tags of the root's children, image the text of channel/image/url (<<>> when
\* there is none).  Every channel and every item has a title element with
\* text: the code reads both without a check.
Doc(wellformed, version, root, image, items) ==
    [wellformed |-> wellformed, version |-> version, root |-> root,
     image |-> image, items |-> items]

Rss(image, items) == Doc(TRUE, "2.0", <<"channel">>, image, items)

Docs ==
    { Rss(<<URL_IMG>>, <<IT_A>>),
      Rss(<<>>, <<IT_A, IT_B>>),
      Rss(<<>>, <<IT_A, IT_B1>>),
      Rss(<<>>, <<IT_S1, IT_S2>>),
      Rss(<<>>, <<IT_NOENC, IT_C>>),
      Rss(<<>>, <<IT_NOURL, IT_C>>),
      Rss(<<>>, <<IT_EMPTY, IT_C>>),
      Rss(<<>>, <<IT_NOPUB, IT_C>>),
      Rss(<<>>, <<IT_D, IT_Q>>),
      Rss(<<>>, <<>>),
      Doc(FALSE, None, <<>>, <<>>, <<>>),
      Doc(TRUE, None, <<"channel">>, <<URL_IMG>>, <<IT_A>>),
      Doc(TRUE, "0.91", <<"channel">>, <<URL_IMG>>, <<IT_A>>),
      Doc(TRUE, "2.0", <<>>, <<>>, <<>>),
      Doc(TRUE, "2.0", <<"channel", "channel">>, <<>>, <<>>),
      Doc(TRUE, "2.0", <<"item">>, <<>>, <<>>) }

LastDoc == Rss(<<>>, <<IT_C>>)

\* read_serverlist(): the feeds of the serverlist file
Serverlist ==
    << [url |-> <<"http://h", "/", "f1">>, category |-> "c", name |-> <<"A">>],
       [url |-> <<"http://h", "/", "f2">>, category |-> "c", name |-> <<"B">>] >>

\* outfolder of podcatch()
Outfolder == <<"out">>

\* ------------------------------------------------------------- exceptions
\* isinstance(e, cls) for the exception classes the code meets:
\* HTTPError < URLError < OSError (= IOError)
IsInstance(e, cls) ==
    \/ e = cls
    \/ e = "HTTPError" /\ cls \in {"URLError", "OSError"}
    \/ e = "URLError" /\ cls = "OSError"
    \/ e = "ConnectionResetError" /\ cls = "OSError"

\* what urlopen(request) raises: an error status, or a transport error that
\* urllib wraps into URLError
OpenErrors == {"HTTPError", "URLError"}
\* what hdl.read() raises when the connection breaks while the body streams
ReadErrors == {"ConnectionResetError"}

\* ------------------------------------------------------------------ state
VARIABLES
    docs,       \* docs[i]: the document served at Serverlist[i].url
    quiet,      \* args.quiet
    fs,         \* the file system below Outfolder
    run,        \* number of podcatch() invocations started
    pc,         \* position of the running invocation
    fi,         \* index into Serverlist of the feed catch() works on
    idx,        \* catch(): index of the item of the for loop (1-based)
    rename,     \* catch(): the rename flag
    pub,        \* catch(): whether the local pub is bound
    dl,         \* download(): arguments, locals and outcome of the last call
    exc,        \* the exception that ended the invocation, or None
    had,        \* the files present when the invocation started
    reqs,       \* the download requests sent by urlopen in this invocation
    caught,     \* the feeds whose item loop catch() has run to its end
    why         \* how the last catch() call that returned came to return

vars == <<docs, quiet, fs, run, pc, fi, idx, rename, pub, dl, exc, had, reqs,
          caught, why>>

NoDl ==
    [state |-> "none", caller |-> None, url |-> <<>>, dest |-> <<>>,
     old |-> <<>>, pre |-> <<>>, renamed |-> FALSE, resume |-> 0, range |-> <<>>, code |-> 0, body |-> <<>>,
     lastmod |-> None, haslen |-> TRUE, err |-> None]

Running == {"fetch", "parse", "image", "prepass", "item", "sidecar",
            "dl_request", "dl_open", "dl_stage", "dl_read", "dl_publish",
            "dl_utime"}
Stopped == {"idle", "done", "crashed", "killed"}

\* the state before the first invocation, the first feed serving one of D
InitWith(D) ==
    /\ docs \in {<<d, LastDoc>> : d \in D}
    /\ quiet \in IF \E i \in 1..Len(docs[1].items) : ~docs[1].items[i].pubDate
                 THEN BOOLEAN ELSE {FALSE}
    /\ fs = [files |-> <<>>, dirs |-> {Outfolder}]
    /\ run = 0
    /\ pc = "idle"
    /\ fi = 1
    /\ idx = 0
    /\ rename = FALSE
    /\ pub = FALSE
    /\ dl = NoDl
    /\ exc = None
    /\ had = {}
    /\ reqs = {}
    /\ caught = {}
    /\ why = None

Init == InitWith(Docs)

\* ------------------------------------------------------- catch(): helpers
\* feedfolder = os.path.join(outfolder, feed['name'])
FeedFolder(f) == Join(Outfolder, Serverlist[f].name)

\* except (IOError, HTTPError) around the retrieval of the feed
FeedCatches(e) == IsInstance(e, "OSError") \/ IsInstance(e, "HTTPError")

\* a variant that accepts every declared version
VersionOk_AnyDeclared(version) == version # None

\* version is None or not version == "2.0"
VersionOk(version) == version # None /\ version = "2.0"

\* len(list(rss)) == 1 and rss[0].tag == 'channel'
ChannelOk(root) == Len(root) = 1 /\ root[1] = "channel"

\* imgfile = os.path.join(feedfolder, "folder%s" % fileext)
ImgFile(f, image) == Join(FeedFolder(f), <<"folder">> \o SplitExt(UrlPath(image)))

\* except HTTPError around download(image.text, imgfile)
ImageCatches(e) == IsInstance(e, "HTTPError")

\* except HTTPError / except URLError around download(itemurl, outfn, quiet)
ItemCatches(e) == IsInstance(e, "HTTPError") \/ IsInstance(e, "URLError")

\* the enclosures the pre-pass looks at: those of the items that have one
HasEnclosure(item) == item.enclosure # "none"
\* x.attrib['url'] raises KeyError for an enclosure without the attribute
PrepassKeyError(items) == \E i \in 1..Len(items) : items[i].enclosure = "nourl"

\* encurls: the non-empty basenames of the enclosure URLs, in document order
IsNonEmptyName(x) == Len(x) > 0
Encurls(items) ==
    LET encs == SelectSeq(items, HasEnclosure)
        names == [i \in 1..Len(encs) |-> Basename(UrlPath(encs[i].url))]
    IN  SelectSeq(names, IsNonEmptyName)

\* a variant that never sets the flag
RenameFlag_Never(items) == FALSE

\* rename = len(encurls) != len(set(encurls))
RenameFlag(items) ==
    LET e == Encurls(items)
    IN  Len(e) # Cardinality({e[i] : i \in 1..Len(e)})

\* title = item.find('title').text.strip()
Title(item) == Strip(item.title)

\* basefn, from the URL or from the title
BaseFn(item, ren) ==
    IF ~ren THEN Basename(UrlPath(item.url))
    ELSE Sanitize(Title(item)) \o SplitExt(UrlPath(item.url))

\* outfn = os.path.join(feedfolder, basefn)
OutFn(f, item, ren) == Join(FeedFolder(f), BaseFn(item, ren))

\* a variant that downloads whether or not outfn exists
NeedDownload_Always(filesys, outfn) == TRUE

\* if not os.path.exists(outfn): download
NeedDownload(filesys, outfn) == ~Exists(filesys, outfn)

\* a variant that writes the sidecar whether or not it exists
NeedSidecar_Always(filesys, txt) == TRUE

\* if not os.path.exists(outfn + ".txt"): write the sidecar
NeedSidecar(filesys, txt) == ~Exists(filesys, txt)

\* what the sidecar holds: title, blank line, description when there is one
SidecarText(item) ==
    <<Title(item), "\n\n">> \o
    (IF item.description # None THEN <<item.description, "\n">> ELSE <<>>)

\* the call download(url, dest) made by caller
Call(caller, url, dest) ==
    [NoDl EXCEPT !.state = "called", !.caller = caller, !.url = url, !.dest = dest]

Items == docs[fi].items

\* catch() returns: podcatch() goes on with the next feed of the list
CatchReturn(reason) ==
    /\ why' = reason
    /\ caught' = IF reason = "end" THEN caught \cup {fi} ELSE caught
    /\ IF fi < Len(Serverlist)
       THEN fi' = fi + 1 /\ pc' = "fetch"
       ELSE fi' = fi /\ pc' = "done"
    /\ idx' = 0 /\ rename' = FALSE /\ pub' = FALSE
    /\ exc' = exc

\* an exception leaves catch() and podcatch(): the process dies
Propagate(e) ==
    /\ pc' = "crashed" /\ exc' = e
    /\ UNCHANGED <<fi, idx, rename, pub>>

\* ---------------------------------------------------------------- actions
\* podcatch(): for server in read_serverlist(serverlist): catch(server, ...)
StartRun ==
    /\ pc \in Stopped
    /\ pc' = "fetch"
    /\ fi' = 1
    /\ idx' = 0 /\ rename' = FALSE /\ pub' = FALSE
    /\ dl' = NoDl
    /\ exc' = None
    /\ had' = DOMAIN fs.files
    /\ reqs' = {}
    /\ UNCHANGED <<docs, quiet, fs, caught, why>>

Podcatch ==
    /\ run < MaxRuns
    /\ run' = run + 1
    /\ StartRun

\* catch(): retrieve the feed document
Catch_Fetch ==
    /\ pc = "fetch"
    /\ \E outcome \in {"ok"} \cup OpenErrors \cup ReadErrors :
          IF outcome = "ok"
          THEN /\ pc' = "parse"
               /\ UNCHANGED <<fi, idx, rename, pub, exc, caught, why>>
          ELSE IF FeedCatches(outcome) THEN CatchReturn("fetch")
          ELSE Propagate(outcome) /\ UNCHANGED <<caught, why>>
    /\ UNCHANGED <<docs, quiet, fs, run, dl, had, reqs>>

\* catch(): parse, check version and channel, create the feed folder
Catch_Validate ==
    /\ pc = "parse"
    /\ LET doc == docs[fi] IN
          IF ~doc.wellformed THEN CatchReturn("parse") /\ fs' = fs
          ELSE IF ~VersionOk(doc.version) THEN CatchReturn("version") /\ fs' = fs
          ELSE IF ~ChannelOk(doc.root) THEN CatchReturn("channel") /\ fs' = fs
          ELSE /\ fs' = IF ~Exists(fs, FeedFolder(fi))
                        THEN MakeDirs(fs, FeedFolder(fi)) ELSE fs
               /\ pc' = "image"
               /\ UNCHANGED <<fi, idx, rename, pub, exc, caught, why>>
    /\ UNCHANGED <<docs, quiet, run, dl, had, reqs>>

\* catch(): the channel image
Catch_Image ==
    /\ pc = "image"
    /\ LET image == docs[fi].image IN
          IF image # <<>> /\ ~Exists(fs, ImgFile(fi, image[1]))
          THEN /\ dl' = Call("image", image[1], ImgFile(fi, image[1]))
               /\ pc' = "dl_request"
          ELSE /\ dl' = dl
               /\ pc' = "prepass"
    /\ UNCHANGED <<docs, quiet, fs, run, fi, idx, rename, pub, exc, had, reqs,
                   caught, why>>

\* catch(): the pre-pass over the enclosures that sets the rename flag
Catch_Prepass ==
    /\ pc = "prepass"
    /\ IF PrepassKeyError(Items)
       THEN Propagate("KeyError")
       ELSE /\ rename' = RenameFlag(Items)
            /\ idx' = 1
            /\ pc' = "item"
            /\ UNCHANGED <<fi, pub, exc>>
    /\ UNCHANGED <<docs, quiet, fs, run, dl, had, reqs, caught, why>>

\* the for loop goes on with the next item
Continue ==
    /\ idx' = idx + 1
    /\ pc' = "item"
    /\ UNCHANGED <<fi, rename, exc>>

\* catch(): one item of the for loop, up to the download call
Catch_Item ==
    /\ pc = "item"
    /\ IF idx > Len(Items)
       THEN CatchReturn("end") /\ dl' = dl
       ELSE /\ UNCHANGED <<caught, why>>
            /\ LET item == Items[idx]
                   bound == pub \/ item.pubDate
                   outfn == OutFn(fi, item, rename)
               IN  IF item.enclosure \in {"none", "nourl"}
                   THEN Continue /\ pub' = pub /\ dl' = dl
                   ELSE IF ~quiet /\ ~bound
                   THEN Propagate("UnboundLocalError") /\ dl' = dl
                   ELSE IF item.url = URL_EMPTY
                   THEN Continue /\ pub' = bound /\ dl' = dl
                   ELSE /\ pub' = bound
                        /\ IF NeedDownload(fs, outfn)
                           THEN dl' = Call("item", item.url, outfn) /\ pc' = "dl_request"
                           ELSE dl' = dl /\ pc' = "sidecar"
                        /\ UNCHANGED <<fi, idx, rename, exc>>
    /\ UNCHANGED <<docs, quiet, fs, run, had, reqs>>

\* catch(): the sidecar of the item
Catch_Sidecar ==
    /\ pc = "sidecar"
    /\ LET item == Items[idx]
           txt == TxtOf(OutFn(fi, item, rename))
       IN  fs' = IF NeedSidecar(fs, txt)
                 THEN WriteFile(OpenFile(fs, txt, "w"), txt, SidecarText(item))
                 ELSE fs
    /\ Continue
    /\ UNCHANGED <<docs, quiet, run, pub, dl, had, reqs, caught, why>>

\* ------------------------------------------------------------- download()
\* a variant that truncates the stage file whatever the status
OpenMode_AlwaysTruncate(code) == "wb"

\* a variant that keeps what the stage file holds whatever the status
OpenMode_AlwaysAppend(code) == "ab"

\* mode = "wb"; if hdl.getcode() == 206: mode = "ab"
OpenMode(code) == IF code = 206 THEN "ab" ELSE "wb"

\* resume = os.path.getsize(tmpfile) when the stage file exists, else 0
ResumeOffset(filesys, tmpfile) ==
    IF Exists(filesys, tmpfile) THEN GetSize(filesys, tmpfile) ELSE 0

\* a variant that asks for the whole resource when a stage file exists
RangeHeader_FromZero(filesys, tmpfile) ==
    IF Exists(filesys, tmpfile) THEN <<0>> ELSE <<>>

\* the Range header of the request: <<offset>> for "bytes=offset-", <<>> for
\* a request without the header
RangeHeader(filesys, tmpfile) ==
    IF Exists(filesys, tmpfile) THEN <<GetSize(filesys, tmpfile)>> ELSE <<>>

\* a variant that removes the stage file instead of renaming it
Promote_DropStage(filesys, tmpfile, dest) ==
    [filesys EXCEPT !.files = Without(filesys.files, tmpfile)]

\* the 416 branch: os.rename(tmpfile, dest)
Promote(filesys, tmpfile, dest) == Rename(filesys, tmpfile, dest)

\* a variant that copies the stage file to dest and leaves it in place
Publish_KeepStage(filesys, tmpfile, dest) ==
    [filesys EXCEPT !.files = With(filesys.files, dest, filesys.files[tmpfile])]

\* after the loop: outhdl.close(); os.rename(tmpfile, dest)
Publish(filesys, tmpfile, dest) == Rename(filesys, tmpfile, dest)

\* the server's answer to a request for url with the Range header range:
\* 200 with the whole body when there is no Range header or the server
\* ignores it, 206 with the rest when it honours a satisfiable range, 416
\* when it honours the header and the offset is not below the length
Answers(url, range) ==
    {[code |-> 200, body |-> Resource(url)]}
    \cup (IF range # <<>> /\ range[1] < Len(Resource(url))
          THEN {[code |-> 206,
                 body |-> SubSeq(Resource(url), range[1] + 1, Len(Resource(url)))]}
          ELSE {})
    \cup (IF range # <<>> /\ range[1] >= Len(Resource(url))
          THEN {[code |-> 416, body |-> <<>>]}
          ELSE {})

\* download() returns to its caller in catch()
DlReturn ==
    /\ pc' = IF dl.caller = "image" THEN "prepass" ELSE "sidecar"
    /\ UNCHANGED <<fi, idx, rename, pub, exc>>

\* download() raises e: the except clauses of its caller in catch() decide
DlRaise(e) ==
    IF dl.caller = "image"
    THEN IF ImageCatches(e)
         THEN pc' = "prepass" /\ UNCHANGED <<fi, idx, rename, pub, exc>>
         ELSE Propagate(e)
    ELSE IF ItemCatches(e)
         THEN Continue /\ pub' = pub
         ELSE Propagate(e)

\* download(): build the request, with a Range header when a stage file exists
Download_Request ==
    /\ pc = "dl_request"
    /\ LET tmpfile == TempOf(dl.dest) IN
          dl' = [dl EXCEPT !.state = "requesting",
                           !.old = IF IsFile(fs, dl.dest)
                                   THEN <<fs.files[dl.dest].data>> ELSE <<>>,
                           !.pre = IF Exists(fs, tmpfile)
                                   THEN <<fs.files[tmpfile].data>> ELSE <<>>,
                           !.resume = ResumeOffset(fs, tmpfile),
                           !.range = RangeHeader(fs, tmpfile)]
    /\ pc' = "dl_open"
    /\ UNCHANGED <<docs, quiet, fs, run, fi, idx, rename, pub, exc, had, reqs,
                   caught, why>>

\* download(): urlopen(request) and the handling of HTTPError
Download_Open ==
    /\ pc = "dl_open"
    /\ reqs' = reqs \cup {[feed |-> fi, caller |-> dl.caller, dest |-> dl.dest,
                            again |-> fi \in caught]}
    /\ \/ \E e \in OpenErrors :
             /\ dl' = [dl EXCEPT !.state = "raised", !.err = e]
             /\ fs' = fs
             /\ DlRaise(e)
       \/ \E a \in Answers(dl.url, dl.range) :
             IF a.code = 416
             THEN \* FIXME of line 189: the time stamp is not set here; the
                  \* answer carries a Last-Modified header or not
                  /\ fs' = Promote(fs, TempOf(dl.dest), dl.dest)
                  /\ \E lastmod \in {"absent", "valid"} :
                        dl' = [dl EXCEPT !.state = "returned", !.code = 416,
                                         !.renamed = TRUE, !.lastmod = lastmod]
                  /\ DlReturn
             ELSE /\ dl' = [dl EXCEPT !.state = "open", !.code = a.code,
                                         !.body = a.body]
                  /\ fs' = fs
                  /\ pc' = "dl_stage"
                  /\ UNCHANGED <<fi, idx, rename, pub, exc>>
    /\ UNCHANGED <<docs, quiet, run, had, caught, why>>

\* download(): open the stage file, read the Content-Length header (the
\* response carries one or not; the code first looks at it here)
Download_Stage ==
    /\ pc = "dl_stage"
    /\ fs' = OpenFile(fs, TempOf(dl.dest), OpenMode(dl.code))
    /\ \E haslen \in BOOLEAN :
          IF haslen
          THEN /\ dl' = [dl EXCEPT !.state = "reading"]
               /\ pc' = "dl_read"
               /\ UNCHANGED <<fi, idx, rename, pub, exc>>
          ELSE \* int(None)
               /\ dl' = [dl EXCEPT !.state = "raised", !.err = "TypeError",
                                    !.haslen = FALSE, !.body = <<>>]
               /\ DlRaise("TypeError")
    /\ UNCHANGED <<docs, quiet, run, had, reqs, caught, why>>

\* download(): one round of the read loop
Download_Read ==
    /\ pc = "dl_read"
    /\ \/ /\ dl.body # <<>>
          /\ \E n \in 1..Min(CHUNK, Len(dl.body)) :
                /\ fs' = WriteFile(fs, TempOf(dl.dest), SubSeq(dl.body, 1, n))
                /\ dl' = [dl EXCEPT !.body = SubSeq(dl.body, n + 1, Len(dl.body))]
          /\ pc' = "dl_read"
          /\ UNCHANGED <<fi, idx, rename, pub, exc>>
       \/ /\ dl.body # <<>>
          /\ \E e \in ReadErrors :
                /\ dl' = [dl EXCEPT !.state = "raised", !.err = e, !.body = <<>>]
                /\ DlRaise(e)
          /\ fs' = fs
       \/ /\ dl.body = <<>>
          /\ fs' = WriteFile(fs, TempOf(dl.dest), <<>>)
          /\ dl' = dl
          /\ pc' = "dl_publish"
          /\ UNCHANGED <<fi, idx, rename, pub, exc>>
    /\ UNCHANGED <<docs, quiet, run, had, reqs, caught, why>>

\* download(): close the stage file and rename it onto dest
Download_Publish ==
    /\ pc = "dl_publish"
    /\ fs' = Publish(fs, TempOf(dl.dest), dl.dest)
    /\ dl' = [dl EXCEPT !.state = "published", !.renamed = TRUE]
    /\ pc' = "dl_utime"
    /\ UNCHANGED <<docs, quiet, run, fi, idx, rename, pub, exc, had, reqs,
                   caught, why>>

\* download(): set the time stamp of dest from the Last-Modified header
\* (the response has no such header, one that parsedate_tz parses, or one
\* for which parsedate_tz returns None; the code first looks at it here)
Download_Utime ==
    /\ pc = "dl_utime"
    /\ \E lastmod \in {"absent", "valid", "invalid"} :
          IF lastmod = "invalid"
          THEN \* email.utils.mktime_tz(None)
               /\ fs' = fs
               /\ dl' = [dl EXCEPT !.state = "raised", !.err = "TypeError",
                                    !.lastmod = lastmod]
               /\ DlRaise("TypeError")
          ELSE /\ fs' = IF lastmod = "valid"
                        THEN Utime(fs, dl.dest, "remote") ELSE fs
               /\ dl' = [dl EXCEPT !.state = "returned", !.lastmod = lastmod]
               /\ DlReturn
    /\ UNCHANGED <<docs, quiet, run, had, reqs, caught, why>>

\* the process is terminated from outside
\* (nothing of the process is left but the files)
Kill ==
    /\ pc \in Running
    /\ pc' = "killed"
    /\ fi' = 1 /\ idx' = 0 /\ rename' = FALSE /\ pub' = FALSE
    /\ dl' = NoDl
    /\ UNCHANGED <<docs, quiet, fs, run, exc, had, reqs, caught, why>>

Next ==
    \/ Podcatch
    \/ Catch_Fetch
    \/ Catch_Validate
    \/ Catch_Image
    \/ Catch_Prepass
    \/ Catch_Item
    \/ Catch_Sidecar
    \/ Download_Request
    \/ Download_Open
    \/ Download_Stage
    \/ Download_Read
    \/ Download_Publish
    \/ Download_Utime
    \/ Kill

Spec == Init /\ [][Next]_vars

\* ------------------------------------------------- the feed changes upstream
\* the same document with every item's title and description rewritten
Reworded(doc) ==
    [doc EXCEPT !.items = [i \in 1..Len(doc.items) |->
        [doc.items[i] EXCEPT !.description = "reworded",
                             !.title = @ \o <<"(v2)">>]]]

\* between two invocations the document of the first feed changes, once
Upstream ==
    /\ pc \in Stopped
    /\ run >= 1 /\ run < MaxRuns
    /\ docs[1] \in Docs
    /\ docs[1].items # <<>>
    /\ docs' = [docs EXCEPT ![1] = Reworded(docs[1])]
    /\ UNCHANGED <<quiet, fs, run, pc, fi, idx, rename, pub, dl, exc, had, reqs,
                   caught, why>>

NextU == Next \/ Upstream

\* the documents that change: their files are named after the URL, so the
\* reworded items map to the sidecars already written
DocsU == { Rss(<<URL_IMG>>, <<IT_A>>), Rss(<<>>, <<IT_D, IT_Q>>) }

InitU == InitWith(DocsU)

SpecU == InitU /\ [][NextU]_vars

\* ------------------------------------- a file name that is a stage file name
\* feeds in which an enclosure has the file name that the stage file of
\* another enclosure gets (c.mp3.temp beside c.mp3), with feeds that have none
DocsT ==
    { Rss(<<>>, <<IT_C, IT_T>>),
      Rss(<<URL_IMG>>, <<IT_A>>),
      Rss(<<>>, <<IT_A, IT_B>>) }

InitT == InitWith(DocsT)

SpecT == InitT /\ [][Next]_vars

\* ------------------------------------------ run after run on a sound network
\* The sync is started again whenever it has stopped, without end (run
\* counts the invocations up to MaxRuns and stays there). The process is
\* killed only during the first MaxRuns - 1 invocations. The server answers
\* every request, honours the Range header, and sends a Content-Length and,
\* if any, a well-formed Last-Modified header; no connection breaks.
DocsL ==
    { Rss(<<URL_IMG>>, <<IT_A>>),
      Rss(<<>>, <<IT_NOPUB, IT_C>>),
      Rss(<<>>, <<IT_NOURL, IT_C>>) }

InitL == InitWith(DocsL)

PodcatchL ==
    /\ run' = Min(run + 1, MaxRuns)
    /\ StartRun

KillL == run < MaxRuns /\ Kill

\* the feed document arrives
Catch_FetchL == Catch_Fetch /\ pc' = "parse"

\* the server answers, with 206 or 416 when the request carries a Range
Download_OpenL ==
    Download_Open /\ dl'.state # "raised" /\ (dl.range # <<>> => dl'.code # 200)

\* the answer carries a Content-Length
Download_StageL == Download_Stage /\ dl'.state # "raised"

\* the body arrives
Download_ReadL == Download_Read /\ dl'.state # "raised"

\* the Last-Modified header, if any, is well-formed
Download_UtimeL == Download_Utime /\ dl'.state # "raised"

NextL ==
    \/ PodcatchL
    \/ Catch_FetchL
    \/ Catch_Validate
    \/ Catch_Image
    \/ Catch_Prepass
    \/ Catch_Item
    \/ Catch_Sidecar
    \/ Download_Request
    \/ Download_OpenL
    \/ Download_StageL
    \/ Download_ReadL
    \/ Download_Publish
    \/ Download_UtimeL
    \/ KillL

SpecL == InitL /\ [][NextL]_vars /\ WF_vars(NextL)

\* ------------------------------------------- two invocations at the same time
\* Two podcatch processes work on the same item of the same feed in the same
\* output folder. pc, dl and exc hold one entry per process; a process keeps
\* in dl what download() keeps in locals, with the open stage file handle:
\* hdl is the path that names the file the handle is bound to (<<>> when the
\* handle is closed or its file has no name left), pos the file position.
Procs == {1, 2}

ItemC == LastDoc.items[1]
DestC == OutFn(2, ItemC, RenameFlag(LastDoc.items))
TmpC == TempOf(DestC)

NoDlC ==
    [state |-> "none", alone |-> TRUE, resume |-> 0, range |-> <<>>, code |-> 0,
     body |-> <<>>, mode |-> None, hdl |-> <<>>, pos |-> 0]

\* the stage file an earlier, terminated invocation left: none, or the first
\* k bytes of the resource
InitC ==
    /\ docs = <<Rss(<<>>, <<>>), LastDoc>>
    /\ quiet = FALSE
    /\ \E k \in (-1)..ResLen :
          fs = [files |-> IF k < 0 THEN <<>>
                          ELSE With(<<>>, TmpC,
                                    [data |-> SubSeq(Resource(ItemC.url), 1, k),
                                     mtime |-> "local"]),
                dirs |-> {Outfolder, FeedFolder(2)}]
    /\ run = 0
    /\ pc = [p \in Procs |-> "idle"]
    /\ fi = 2
    /\ idx = 1
    /\ rename = RenameFlag(LastDoc.items)
    /\ pub = TRUE
    /\ dl = [p \in Procs |-> NoDlC]
    /\ exc = [p \in Procs |-> None]
    /\ had = {}
    /\ reqs = {}
    /\ caught = {}
    /\ why = None

SameC == UNCHANGED <<docs, quiet, fi, idx, rename, pub, had, reqs, caught, why>>

IdleC(p) == pc[p] \in {"idle", "done", "crashed"}

\* the zero byte, which no resource holds
NUL == <<URL_EMPTY, 0>>

\* outhdl.write(data) at file position pos: the bytes replace what is there;
\* a position past the end of the file leaves a gap of zero bytes
WriteAt(data, pos, bytes) ==
    LET padded == IF Len(data) < pos
                  THEN data \o [i \in 1..(pos - Len(data)) |-> NUL]
                  ELSE data
    IN  SubSeq(padded, 1, pos) \o bytes
            \o SubSeq(padded, pos + Len(bytes) + 1, Len(padded))

\* os.rename(TmpC, DestC) as the open handles of the processes see it: a
\* handle bound to the stage file now writes to dest, a handle bound to the
\* file dest named before has no name left
Renamed(d, p) ==
    [q \in Procs |->
        IF q = p THEN d[q]
        ELSE IF d[q].hdl = TmpC THEN [d[q] EXCEPT !.hdl = DestC]
        ELSE IF d[q].hdl = DestC THEN [d[q] EXCEPT !.hdl = <<>>]
        ELSE d[q]]

\* os.rename raises FileNotFoundError: no except clause of catch() takes it
RaiseC(p, e) ==
    /\ pc' = [pc EXCEPT ![p] = "crashed"]
    /\ exc' = [exc EXCEPT ![p] = e]

\* a process reaches the item in catch()
CStart(p) ==
    /\ pc[p] = "idle"
    /\ run' = run + 1
    /\ pc' = [pc EXCEPT ![p] = "item"]
    /\ dl' = [dl EXCEPT ![p].alone = \A q \in Procs \ {p} : IdleC(q)]
    /\ UNCHANGED <<fs, exc>>
    /\ SameC

\* catch(): if not os.path.exists(outfn): download(itemurl, outfn)
CItem(p) ==
    /\ pc[p] = "item"
    /\ pc' = [pc EXCEPT ![p] = IF NeedDownload(fs, DestC) THEN "dl_request"
                                ELSE "done"]
    /\ UNCHANGED <<fs, run, dl, exc>>
    /\ SameC

\* download(): build the request
CRequest(p) ==
    /\ pc[p] = "dl_request"
    /\ dl' = [dl EXCEPT ![p].state = "requesting",
                        ![p].resume = ResumeOffset(fs, TmpC),
                        ![p].range = RangeHeader(fs, TmpC)]
    /\ pc' = [pc EXCEPT ![p] = "dl_open"]
    /\ UNCHANGED <<fs, run, exc>>
    /\ SameC

\* download(): urlopen(request); the 416 branch renames the stage file
COpen(p) ==
    /\ pc[p] = "dl_open"
    /\ \E a \in Answers(ItemC.url, dl[p].range) :
          IF a.code = 416
          THEN IF IsFile(fs, TmpC)
               THEN /\ fs' = Promote(fs, TmpC, DestC)
                    /\ dl' = Renamed([dl EXCEPT ![p].state = "returned",
                                                ![p].code = 416], p)
                    /\ pc' = [pc EXCEPT ![p] = "done"]
                    /\ exc' = exc
               ELSE /\ fs' = fs
                    /\ dl' = [dl EXCEPT ![p].state = "raised", ![p].code = 416]
                    /\ RaiseC(p, "FileNotFoundError")
          ELSE /\ fs' = fs
               /\ dl' = [dl EXCEPT ![p].state = "open", ![p].code = a.code,
                                   ![p].body = a.body]
               /\ pc' = [pc EXCEPT ![p] = "dl_stage"]
               /\ exc' = exc
    /\ run' = run
    /\ SameC

\* download(): outhdl = open(tmpfile, mode)
CStage(p) ==
    /\ pc[p] = "dl_stage"
    /\ fs' = OpenFile(fs, TmpC, OpenMode(dl[p].code))
    /\ dl' = [dl EXCEPT ![p].state = "reading",
                        ![p].mode = OpenMode(dl[p].code),
                        ![p].hdl = TmpC,
                        ![p].pos = 0]
    /\ pc' = [pc EXCEPT ![p] = "dl_read"]
    /\ UNCHANGED <<run, exc>>
    /\ SameC

\* download(): one round of the read loop; "ab" writes at the end of the
\* file, "wb" at the position of the handle
CRead(p) ==
    /\ pc[p] = "dl_read"
    /\ \/ /\ dl[p].body # <<>>
          /\ \E n \in 1..Min(CHUNK, Len(dl[p].body)) :
                LET bytes == SubSeq(dl[p].body, 1, n)
                    f == dl[p].hdl
                IN  /\ fs' = IF f = <<>> THEN fs
                             ELSE IF dl[p].mode = "ab"
                             THEN WriteFile(fs, f, bytes)
                             ELSE [fs EXCEPT !.files[f].data =
                                        WriteAt(@, dl[p].pos, bytes)]
                    /\ dl' = [dl EXCEPT
                                ![p].body = SubSeq(dl[p].body, n + 1, Len(dl[p].body)),
                                ![p].pos = @ + n]
          /\ pc' = pc
       \/ /\ dl[p].body = <<>>
          /\ fs' = fs
          /\ dl' = dl
          /\ pc' = [pc EXCEPT ![p] = "dl_publish"]
    /\ UNCHANGED <<run, exc>>
    /\ SameC

\* download(): outhdl.close(); os.rename(tmpfile, dest)
CPublish(p) ==
    /\ pc[p] = "dl_publish"
    /\ IF IsFile(fs, TmpC)
       THEN /\ fs' = Publish(fs, TmpC, DestC)
            /\ dl' = Renamed([dl EXCEPT ![p].state = "published",
                                        ![p].hdl = <<>>], p)
            /\ pc' = [pc EXCEPT ![p] = "dl_utime"]
            /\ exc' = exc
       ELSE /\ fs' = fs
            /\ dl' = [dl EXCEPT ![p].state = "raised", ![p].hdl = <<>>]
            /\ RaiseC(p, "FileNotFoundError")
    /\ run' = run
    /\ SameC

\* download(): os.utime(dest, ...) from the Last-Modified header
CUtime(p) ==
    /\ pc[p] = "dl_utime"
    /\ fs' = Utime(fs, DestC, "remote")
    /\ dl' = [dl EXCEPT ![p].state = "returned"]
    /\ pc' = [pc EXCEPT ![p] = "done"]
    /\ UNCHANGED <<run, exc>>
    /\ SameC

NextC ==
    \E p \in Procs :
        \/ CStart(p)
        \/ CItem(p)
        \/ CRequest(p)
        \/ COpen(p)
        \/ CStage(p)
        \/ CRead(p)
        \/ CPublish(p)
        \/ CUtime(p)

SpecC == InitC /\ [][NextC]_vars

TypeOK ==
    /\ pc \in Running \cup Stopped
    /\ run \in 0..MaxRuns
    /\ fi \in 1..Len(Serverlist)

\* ------------------------------------------------------------ properties
IsPrefix(p, q) == Len(p) <= Len(q) /\ SubSeq(q, 1, Len(p)) = p

\* the last download() call ended by raising
DlFailed == dl.state = "raised"
FetchErrors == OpenErrors \cup ReadErrors

\* C1: whenever download(url, dest) has failed, dest is absent if it was
\* absent before the call and holds its former content otherwise
C1_DestUntouchedOnFailure ==
    DlFailed =>
        IF dl.old = <<>>
        THEN ~IsFile(fs, dl.dest)
        ELSE IsFile(fs, dl.dest) /\ fs.files[dl.dest].data = dl.old[1]

\* C2: when download() starts with a stage file that holds the first k bytes
\* of the resource, its request carries Range: bytes=k-, and what it
\* publishes at dest is the whole resource
C2_ResumeIsIdentical ==
    (dl.state \notin {"none", "called"} /\ dl.pre # <<>>
        /\ IsPrefix(dl.pre[1], Resource(dl.url)))
    => /\ dl.range = <<Len(dl.pre[1])>>
       /\ dl.renamed =>
             /\ IsFile(fs, dl.dest)
             /\ fs.files[dl.dest].data = Resource(dl.url)

C2_Witness ==
    /\ dl.renamed /\ dl.code = 206
    /\ dl.pre # <<>> /\ Len(dl.pre[1]) = 1
    /\ dl.range = <<1>>
    /\ fs.files[dl.dest].data = Resource(dl.url)

\* C3: when the request is answered with 416, the stage file has become dest
\* with the content it had at the call, no body was read, and download()
\* has returned without raising
C3_Promote416 ==
    dl.code = 416 =>
        /\ dl.state = "returned"
        /\ dl.pre # <<>>
        /\ IsFile(fs, dl.dest)
        /\ fs.files[dl.dest].data = dl.pre[1]
        /\ ~IsFile(fs, TempOf(dl.dest))
        /\ dl.body = <<>>

C3_Witness ==
    /\ dl.code = 416 /\ dl.state = "returned"
    /\ IsFile(fs, dl.dest)
    /\ Len(fs.files[dl.dest].data) = ResLen

SharedBasename(a, b) ==
    /\ a.enclosure = "url" /\ b.enclosure = "url"
    /\ Basename(UrlPath(a.url)) # <<>>
    /\ Basename(UrlPath(a.url)) = Basename(UrlPath(b.url))
C5_TitleNamesDiffer ==
    pc = "item" =>
        \A i, j \in 1..Len(Items) :
            (i # j /\ SharedBasename(Items[i], Items[j])) =>
                /\ rename
                /\ OutFn(fi, Items[i], rename) # OutFn(fi, Items[j], rename)

\* C6: an item without enclosure, without url attribute or with an empty url
\* never makes catch() raise
LacksUrl(item) == item.enclosure \in {"none", "nourl"} \/ item.url = URL_EMPTY
C6_MissingEnclosureNeverAborts ==
    (pc = "crashed" /\ \E i \in 1..Len(Items) : LacksUrl(Items[i]))
    => exc \notin {"KeyError"}

\* C7: no fetch failure (error status or transport error) leaves catch()
C7_FetchFailureNeverPropagates ==
    pc = "crashed" => exc \notin FetchErrors

\* C8: a fetch error in the download of an item's enclosure ends that item
\* only: no sidecar for it, and the loop goes on with the next item
C8_ItemFetchErrorSkipsItem ==
    (DlFailed /\ dl.caller = "item" /\ dl.err \in FetchErrors)
    => /\ pc # "crashed"
       /\ ~IsFile(fs, TxtOf(dl.dest)) \/ TxtOf(dl.dest) \in had

\* C9: when download() has failed, a stage file that existed at the call or
\* was created by it still exists
C9_StageKeptOnFailure ==
    (DlFailed /\ (dl.pre # <<>> \/ dl.code \in {200, 206}))
    => IsFile(fs, TempOf(dl.dest))

\* C10: a feed whose root declares no version or one other than "2.0" is left
\* by catch() with no file or directory changed and no request sent, and the
\* run goes on with the next feed
UnsupportedHere == docs[fi].wellformed /\ docs[fi].version # "2.0"
C10_UnsupportedVersionPlansNothing ==
    /\ [](pc \in {"image", "prepass", "item", "sidecar", "dl_request", "dl_open",
                  "dl_stage", "dl_read", "dl_publish", "dl_utime"}
            => docs[fi].version = "2.0")
    /\ [][(pc = "parse" /\ UnsupportedHere /\ pc' # "killed")
            => /\ fs' = fs /\ reqs' = reqs /\ exc' = exc
               /\ IF fi < Len(Serverlist)
                  THEN fi' = fi + 1 /\ pc' = "fetch"
                  ELSE pc' = "done"]_vars

C10_Witness ==
    /\ why = "version" /\ pc = "fetch" /\ fi = 2
    /\ ~Exists(fs, FeedFolder(1))
    /\ reqs = {}

\* C11: a step never removes a sidecar nor changes what it holds
IsSidecarPath(p) == Len(p) >= 2 /\ SubSeq(p, Len(p) - 1, Len(p)) = <<".", "txt">>
C11_SidecarNeverAltered ==
    [][\A p \in DOMAIN fs.files :
          IsSidecarPath(p) => /\ p \in DOMAIN fs'.files
                              /\ fs'.files[p].data = fs.files[p].data]_vars

\* the loop has gone past an item whose sidecar holds the text of the
\* document as it was before it changed upstream
C11_Witness ==
    /\ run >= 2 /\ pc = "item" /\ idx = 2 /\ fi = 1
    /\ docs[1] \notin Docs
    /\ Items[1].enclosure = "url"
    /\ IsFile(fs, OutFn(fi, Items[1], rename))
    /\ IsFile(fs, TxtOf(OutFn(fi, Items[1], rename)))
    /\ fs.files[TxtOf(OutFn(fi, Items[1], rename))].data # SidecarText(Items[1])

\* C12: when download() has returned with dest published and the server gave
\* a Last-Modified time for the resource, dest carries that time
C12_MtimeIsLastModified ==
    (pc \in {"prepass", "sidecar"} /\ dl.state = "returned" /\ dl.lastmod = "valid")
        => /\ IsFile(fs, dl.dest)
           /\ fs.files[dl.dest].mtime = "remote"

\* C13: a request for an item's enclosure is sent only when dest does not
\* exist; it carries Range: bytes=L- with L the length the stage file has at
\* that moment when dest.temp exists, and no Range header otherwise
C13_DecisionOrder ==
    (pc = "dl_open" /\ dl.caller = "item")
        => /\ ~Exists(fs, dl.dest)
           /\ dl.range = IF IsFile(fs, TempOf(dl.dest))
                         THEN <<Len(fs.files[TempOf(dl.dest)].data)>>
                         ELSE <<>>

C13_Witness ==
    /\ pc = "dl_open" /\ dl.caller = "item"
    /\ IsFile(fs, TempOf(dl.dest))
    /\ Len(fs.files[TempOf(dl.dest)].data) = 1
    /\ dl.range = <<1>>

\* C14: a full-content answer (200) makes the stage file start over, also
\* when the request carried a Range header: the stage file, then dest, hold
\* the resource and nothing before it; what was staged is kept, and the
\* body appended to it, only under a 206 answer
C14_FullAnswerDiscardsStage ==
    /\ (pc \in {"dl_read", "dl_publish"} /\ dl.code = 200)
          => fs.files[TempOf(dl.dest)].data \o dl.body = Resource(dl.url)
    /\ (pc = "dl_utime" /\ dl.code = 200)
          => fs.files[dl.dest].data = Resource(dl.url)
    /\ (pc \in {"dl_read", "dl_publish"} /\ dl.code = 206)
          => fs.files[TempOf(dl.dest)].data \o dl.body
               = dl.pre[1] \o SubSeq(Resource(dl.url), dl.resume + 1, ResLen)

C14_Witness ==
    /\ pc = "dl_utime" /\ dl.code = 200
    /\ dl.range # <<>> /\ dl.pre # <<>> /\ dl.pre[1] # <<>>
    /\ fs.files[dl.dest].data = Resource(dl.url)

\* C15: while catch() works through the items of a channel the rename flag
\* is what the enclosures of the whole channel make it (two of them share a
\* non-empty file name), every download of an item goes to the name that
\* flag gives, the flag does not change, and the loop starts at the first
\* item, moves one item at a time and ends only past the last one
ItemPhase ==
    \/ pc \in {"item", "sidecar"}
    \/ pc \in {"dl_request", "dl_open", "dl_stage", "dl_read", "dl_publish",
                "dl_utime"} /\ dl.caller = "item"

Collide(items) ==
    \E i, j \in 1..Len(items) :
        /\ i < j
        /\ items[i].enclosure # "none" /\ items[j].enclosure # "none"
        /\ Basename(UrlPath(items[i].url)) # <<>>
        /\ Basename(UrlPath(items[i].url)) = Basename(UrlPath(items[j].url))

NameByRule(f, item, titled) ==
    Join(FeedFolder(f),
         IF titled THEN Sanitize(Strip(item.title)) \o SplitExt(UrlPath(item.url))
         ELSE Basename(UrlPath(item.url)))

C15_FlagFixedBeforeItems ==
    /\ [](ItemPhase => /\ rename = Collide(Items)
                       /\ idx >= 1
                       /\ (pc # "item" => idx <= Len(Items))
                       /\ (pc \notin {"item", "sidecar"} =>
                             dl.dest = NameByRule(fi, Items[idx], Collide(Items))))
    /\ [][/\ (pc = "prepass" /\ pc' = "item") => idx' = 1
          /\ (ItemPhase /\ ItemPhase') => /\ rename' = rename
                                          /\ idx' \in {idx, idx + 1}
          /\ (pc = "item" /\ pc' \in {"fetch", "done"}) => idx = Len(Items) + 1]_vars

C15_Witness ==
    /\ pc = "item" /\ idx = 2 /\ rename
    /\ Len(Items) = 2
    /\ IsFile(fs, NameByRule(fi, Items[1], TRUE))
    /\ IsFile(fs, TxtOf(NameByRule(fi, Items[1], TRUE)))

\* C16: two invocations that work on the same item at the same time can
\* publish a dest that is not the resource, or fail on the rename of a stage
\* file the other one moved; invocations that run one after the other never do
UnsafeC ==
    \/ \E p \in Procs : exc[p] = "FileNotFoundError"
    \/ /\ IsFile(fs, DestC)
       /\ fs.files[DestC].data # Resource(ItemC.url)

C16_UnsafeOnlyTogether ==
    UnsafeC => \E p \in Procs : ~dl[p].alone

C16_Witness ==
    /\ \E p \in Procs : pc[p] = "crashed" /\ exc[p] = "FileNotFoundError"
    /\ IsFile(fs, DestC)
    /\ fs.files[DestC].data # Resource(ItemC.url)
    /\ \E p \in Procs : ~dl[p].alone

\* C17: an item that lacks pubDate never ends the run with an error: the run
\* never dies of the unbound local pub that the missing element leaves
C17_MissingPubDateNeverAborts ==
    ~(pc = "crashed" /\ exc = "UnboundLocalError")

\* C18: no download target exists together with its own stage file
Dests(f) ==
    LET doc == docs[f] IN
    {OutFn(f, doc.items[i], RenameFlag(doc.items)) :
        i \in {j \in 1..Len(doc.items) : /\ doc.items[j].enclosure = "url"
                                         /\ doc.items[j].url # URL_EMPTY}}
    \cup {ImgFile(f, doc.image[i]) : i \in 1..Len(doc.image)}

AllDests == UNION {Dests(f) : f \in 1..Len(Serverlist)}

StageNamed == \E d, e \in AllDests : e = TempOf(d)

C19_SidecarOnlyBesideMedia ==
    (pc = "sidecar" /\ NeedSidecar(fs, TxtOf(OutFn(fi, Items[idx], rename))))
        => IsFile(fs, OutFn(fi, Items[idx], rename))

\* C20: on a sound network and with finitely many kills, run after run ends
\* up with every item that has a non-empty enclosure URL published, for good
ItemDests ==
    UNION {{OutFn(f, docs[f].items[i], RenameFlag(docs[f].items)) :
                i \in {j \in 1..Len(docs[f].items) :
                          /\ docs[f].items[j].enclosure = "url"
                          /\ docs[f].items[j].url # URL_EMPTY}} :
           f \in 1..Len(Serverlist)}

AllPublished == \A d \in ItemDests : IsFile(fs, d)

C20_EventuallyAllPublished == <>[]AllPublished

====
